---- MODULE Spec2Model ----
(***************************************************************************)
(* Model of the payroll merge engine: ExcelInterface (app/excel.py) driven *)
(* by MergeWorker.run (ui/workers.py).  One run loads the lookup table,    *)
(* connects to the source workbook, parses it into per-technician records, *)
(* composes one detail sheet per eligible technician plus the master       *)
(* sheet, saves the combined workbook and removes the lookup file.         *)
(* PDFExportWorker.run then exports the technician sheets of the saved     *)
(* document through the Excel application (Spec).  MainWindow, which       *)
(* starts the workers and handles their signals, is specified on its own   *)
(* (UiSpec).                                                               *)
(***************************************************************************)
EXTENDS Integers, Sequences, FiniteSets, TLC

(***************************************************************************)
(* Bounds of the model.                                                    *)
(***************************************************************************)
MaxInvoices == 2
MaxDpas == 2
MaxStamp == 2
SlotsPerDay == 2
MaxLookupRows == 2
MaxRuns == 2
MaxExports == 1
MaxInFlight == 2

(***************************************************************************)
(* Python values.  None is a value of its own; an invoice number read from *)
(* a cell is an int or a str, and 1 # "1" as dictionary keys.              *)
(***************************************************************************)
None == "None"
IntKey(n) == [ty |-> "int", v |-> n]
StrKey(n) == [ty |-> "str", v |-> n]
\* a cell holding text that is no number, and an empty cell, as lookup ids
TextKey == [ty |-> "text", v |-> 0]
NoneKey == [ty |-> "none", v |-> 0]

EmptyDict == <<>>

\* dict.get(key, default)
DictGet(d, k, default) == IF k \in DOMAIN d THEN d[k] ELSE default

\* d[k] = v
DictSet(d, k, v) == (k :> v) @@ d

(***************************************************************************)
(* Worksheet cells.  A cell is empty, a string, a number, an invoice       *)
(* number (int or str), a date text, or one of the two formulas the        *)
(* composer writes.                                                        *)
(***************************************************************************)
Blank == <<"blank">>
Str(s) == <<"str", s>>
Num(n) == <<"num", n>>
InvNo(k) == <<"inv", k>>
DateText(day) == <<"date", day>>
\* =SUM(E3:E<last>)
SumFormula(first, last) == <<"sum", first, last>>

\* a value handed to openpyxl: None leaves the cell empty
PyCell(s) == IF s = None THEN Blank ELSE Str(s)

\* Excel's <cell> = "" : true of an empty cell and of an empty string
IsBlankCell(c) == c = Blank \/ c = Str("")

(***************************************************************************)
(* A worksheet is the sequence of its rows, each row the sequence of its   *)
(* cells; Len is openpyxl's _current_row, the last row touched.            *)
(***************************************************************************)
EmptySheet == <<>>

RECURSIVE PadTo(_, _)
PadTo(ws, r) == IF Len(ws) >= r THEN ws ELSE PadTo(Append(ws, <<>>), r)

\* ws.append(values): the row after the last row touched
SheetAppend(ws, values) == Append(ws, values)

\* writing the cells of row r (ws.cell(row=r, ...), ws["A<r>"])
SheetSetRow(ws, r, values) == [PadTo(ws, r) EXCEPT ![r] = values]

\* iter_rows(..., max_row=r) creates the cells it walks over
SheetTouch(ws, r) == PadTo(ws, r)

\* the rows of a sheet that hold a value (what a reader of the file sees)
RECURSIVE UsedRows(_)
UsedRows(ws) ==
    IF Len(ws) = 0 THEN 0
    ELSE IF \E c \in 1..Len(ws[Len(ws)]) : ws[Len(ws)][c] # Blank
         THEN Len(ws)
         ELSE UsedRows(SubSeq(ws, 1, Len(ws) - 1))

(***************************************************************************)
(* Header texts.  Norm is validate_header_row._norm (trim, collapse        *)
(* spaces, lowercase); HeaderKey is the key derivation of _prepare_data    *)
(* (lowercase, rstrip " %", drop periods, spaces to underscores).  Both    *)
(* are tabulated over the header texts the model uses.                     *)
(***************************************************************************)
InvoicesExpected ==
    << "Technician", "Invoice Id", "Invoice", "Invoiced On", "Customer",
       "Total", "Split %", "Subtotal", "Cost", "Bonus", "Pay Adj.",
       "NC Total", "Net Serv. Vol.", "GP", "Business Unit" >>

DpaExpected ==
    << "Technician", "Invoice Id", "Invoice", "Posted On", "Memo", "Amount" >>

Norm ==
    [ Technician |-> "technician" ] @@
    ( "Invoice Id" :> "invoice id" ) @@ ( "Invoice" :> "invoice" ) @@
    ( "Invoiced On" :> "invoiced on" ) @@ ( "Customer" :> "customer" ) @@
    ( "Total" :> "total" ) @@ ( "Split %" :> "split %" ) @@
    ( "Subtotal" :> "subtotal" ) @@ ( "Cost" :> "cost" ) @@
    ( "Bonus" :> "bonus" ) @@ ( "Pay Adj." :> "pay adj." ) @@
    ( "NC Total" :> "nc total" ) @@ ( "Net Serv. Vol." :> "net serv. vol." ) @@
    ( "GP" :> "gp" ) @@ ( "Business Unit" :> "business unit" ) @@
    ( "Posted On" :> "posted on" ) @@ ( "Memo" :> "memo" ) @@
    ( "Amount" :> "amount" ) @@
    \* texts that differ from the expected ones
    ( " split   % " :> "split %" ) @@ ( "SPLIT %" :> "split %" ) @@
    ( "Split" :> "split" ) @@
    ( "Split Pct" :> "split pct" ) @@ ( "POSTED  ON" :> "posted on" ) @@
    ( "Posted" :> "posted" )

HeaderKey ==
    [ Technician |-> "technician" ] @@
    ( "Invoice Id" :> "invoice_id" ) @@ ( "Invoice" :> "invoice" ) @@
    ( "Invoiced On" :> "invoiced_on" ) @@ ( "Customer" :> "customer" ) @@
    ( "Total" :> "total" ) @@ ( "Split %" :> "split" ) @@
    ( "Subtotal" :> "subtotal" ) @@ ( "Cost" :> "cost" ) @@
    ( "Bonus" :> "bonus" ) @@ ( "Pay Adj." :> "pay_adj" ) @@
    ( "NC Total" :> "nc_total" ) @@ ( "Net Serv. Vol." :> "net_serv_vol" ) @@
    ( "GP" :> "gp" ) @@ ( "Business Unit" :> "business_unit" ) @@
    ( "Posted On" :> "posted_on" ) @@ ( "Memo" :> "memo" ) @@
    ( "Amount" :> "amount" ) @@
    ( " split   % " :> "_split" ) @@ ( "SPLIT %" :> "split" ) @@
    ( "Split" :> "split" ) @@
    ( "Split Pct" :> "split_pct" ) @@ ( "POSTED  ON" :> "posted__on" ) @@
    ( "Posted" :> "posted" )

\* the fields of the Invoice dataclass
InvoiceFields ==
    { "technician", "invoice_id", "invoice", "invoiced_on", "customer",
      "total", "split", "subtotal", "cost", "bonus", "pay_adj", "nc_total",
      "net_serv_vol", "gp", "business_unit" }

\* Invoice(**data) accepts exactly the dataclass's field names as keywords
InvoiceAccepts(header) ==
    { HeaderKey[header[j]] : j \in 1..Len(header) } = InvoiceFields

(***************************************************************************)
(* Records.  Of an invoice row the engine reads the technician, the        *)
(* invoice number, the invoice date, the customer and the gross profit; of *)
(* an adjustment row the technician, the invoice number, the posted date,  *)
(* the memo and the amount.  A datetime is a time stamp: SlotsPerDay       *)
(* stamps share one calendar day.                                          *)
(***************************************************************************)
Invoice(row) ==
    [ cls |-> "Invoice", technician |-> row.technician,
      invoice |-> row.invoice, invoiced_on |-> row.invoiced_on,
      customer |-> row.customer, gp |-> row.gp ]

DirectPayrollAdjustment(row) ==
    [ cls |-> "DirectPayrollAdjustment", technician |-> row.technician,
      invoice |-> row.invoice, posted_on |-> row.posted_on,
      memo |-> row.memo, amount |-> row.amount ]

IsInvoice(item) == item.cls = "Invoice"

\* dt.strftime("%m/%d/%Y"): the calendar day, the time of day is dropped
Strftime(stamp) == DateText(stamp \div SlotsPerDay)

(***************************************************************************)
(* Files.  The lookup file the user names, and the cache artifact the      *)
(* engine writes to the output directory.  "ok" says load_workbook (xlsx)  *)
(* or json.load (json) succeeds on the file.                               *)
(***************************************************************************)
CachePath == "out/LookupTable.json"
Paths == { "lookup.xlsx", "lookup.json", "lookup.csv", CachePath }

\* Path.suffix
Suffix(path) ==
    CASE path = "lookup.xlsx" -> ".xlsx"
      [] path = "lookup.json" -> ".json"
      [] path = CachePath -> ".json"
      [] OTHER -> ".csv"

AbsentFile ==
    [ kind |-> "absent", ok |-> FALSE, sheet1 |-> FALSE, rows |-> <<>>,
      table |-> EmptyDict ]
XlsxFile(ok, sheet1, rows) ==
    [ kind |-> "xlsx", ok |-> ok, sheet1 |-> sheet1, rows |-> rows,
      table |-> EmptyDict ]
JsonFile(ok, table) ==
    [ kind |-> "json", ok |-> ok, sheet1 |-> FALSE, rows |-> <<>>,
      table |-> table ]
OtherFile ==
    [ kind |-> "other", ok |-> FALSE, sheet1 |-> FALSE, rows |-> <<>>,
      table |-> EmptyDict ]

NoFiles == [ p \in Paths |-> AbsentFile ]

\* Path.exists()
Exists(files, path) == files[path].kind # "absent"

(***************************************************************************)
(* The inputs of a run: the source workbook, the lookup path the user      *)
(* gives, the files on disk and whether the output directory can be        *)
(* written.  The scenarios vary one aspect of the input at a time.         *)
(***************************************************************************)
SeqsUpTo(S, n) == UNION { [1..k -> S] : k \in 0..n }

Stamps == 0..MaxStamp

BaseSheets == << "Invoices", "Direct Payroll Adjustments", "Commission Base Payroll Adj" >>

Workbook(sheets, ih, dh, irows, drows) ==
    [ loadable |-> TRUE, sheetnames |-> sheets, inv_header |-> ih,
      dpa_header |-> dh, inv_rows |-> irows, dpa_rows |-> drows ]

DefaultLookupRows == << [id |-> IntKey(1), name |-> "Acme"] >>
DefaultXlsx == [NoFiles EXCEPT !["lookup.xlsx"] = XlsxFile(TRUE, TRUE, DefaultLookupRows)]
DefaultJson == [NoFiles EXCEPT !["lookup.json"] = JsonFile(TRUE, StrKey(1) :> "Acme")]

EmptyJson == [NoFiles EXCEPT !["lookup.json"] = JsonFile(TRUE, EmptyDict)]

Scenario(w, path, files, w_ok, n) ==
    [ wb |-> w, lookup |-> path, files |-> files, writable |-> w_ok, budget |-> n,
      xbudget |-> 0 ]

InvoiceRow(tech, number, stamp, customer, gp) ==
    [ technician |-> tech, invoice |-> number, invoiced_on |-> stamp,
      customer |-> customer, gp |-> gp ]
DpaRow(tech, number, stamp, memo, amount) ==
    [ technician |-> tech, invoice |-> number, posted_on |-> stamp,
      memo |-> memo, amount |-> amount ]

\* dates of one technician's invoices and adjustments, the i-th invoice
\* numbered i: ordering of the ledger
OrderScenarios ==
    { Scenario(Workbook(BaseSheets, InvoicesExpected, DpaExpected,
                        [ i \in DOMAIN on |-> InvoiceRow("Ann", IntKey(i), on[i], "Zed", 1) ],
                        [ i \in DOMAIN po |-> DpaRow("Ann", IntKey(i), po[i], "fix", 0) ]),
               "lookup.xlsx", DefaultXlsx, TRUE, 1) :
        on \in SeqsUpTo(Stamps, MaxInvoices), po \in SeqsUpTo(Stamps, MaxDpas) }

\* technicians and amounts: who gets a sheet, which entries are kept
EligibilityScenarios ==
    { Scenario(Workbook(BaseSheets, InvoicesExpected, DpaExpected, ir,
                        [ i \in 1..nd |-> DpaRow("Ann", IntKey(2), 0, None, 0) ]),
               "lookup.xlsx", DefaultXlsx, TRUE, 1) :
        ir \in SeqsUpTo([ technician : {None, "Ann", "Bob"}, invoice : {IntKey(1)},
                          invoiced_on : {0}, customer : {"Zed"}, gp : {-1, 0, 1} ],
                        MaxInvoices),
        nd \in 0..MaxDpas }

\* customer fields and lookup tables: how a customer name is resolved
CustomerScenarios ==
    { Scenario(Workbook(BaseSheets, InvoicesExpected, DpaExpected, ir, <<>>),
               f[1], f[2], TRUE, MaxRuns) :
        ir \in SeqsUpTo([ technician : {"Ann"}, invoice : {IntKey(1), StrKey(1)},
                          invoiced_on : {0}, customer : {None, "", "Zed"}, gp : {1} ],
                        MaxInvoices),
        f \in { <<"lookup.xlsx", DefaultXlsx>>, <<"lookup.json", DefaultJson>>,
                 <<"lookup.json", EmptyJson>> } }

OneInvoice ==
    << InvoiceRow("Ann", IntKey(1), 0, None, 1), InvoiceRow("Ann", StrKey(2), 0, None, 1) >>
OneDpa == << DpaRow("Bob", IntKey(2), 0, "fix", 1) >>
PlainWorkbook == Workbook(BaseSheets, InvoicesExpected, DpaExpected, OneInvoice, OneDpa)

LookupRow ==
    [ id : {IntKey(1), StrKey(2), TextKey, NoneKey}, name : {"Acme", None} ]

\* the lookup source: its content
LookupContentScenarios ==
    { Scenario(PlainWorkbook, "lookup.xlsx",
               [NoFiles EXCEPT !["lookup.xlsx"] = XlsxFile(TRUE, TRUE, rows)],
               TRUE, MaxRuns) :
        rows \in SeqsUpTo(LookupRow, MaxLookupRows) }

\* the lookup source: its kind, and failures to read or write
LookupKindScenarios ==
    { Scenario(PlainWorkbook, "lookup.xlsx",
               [NoFiles EXCEPT !["lookup.xlsx"] = x], w, MaxRuns) :
        x \in { XlsxFile(FALSE, FALSE, <<>>), XlsxFile(TRUE, FALSE, <<>>),
                XlsxFile(TRUE, TRUE, DefaultLookupRows), AbsentFile },
        w \in BOOLEAN }
    \cup
    { Scenario(PlainWorkbook, p, [NoFiles EXCEPT ![p] = j], TRUE, MaxRuns) :
        p \in { "lookup.json", CachePath },
        j \in { JsonFile(TRUE, EmptyDict), JsonFile(FALSE, EmptyDict),
                JsonFile(TRUE, StrKey(1) :> "Acme"),
                JsonFile(TRUE, (StrKey(1) :> "Acme") @@ (StrKey(2) :> "Bolt")) } }
    \cup
    { Scenario(PlainWorkbook, "lookup.csv",
               [NoFiles EXCEPT !["lookup.csv"] = OtherFile], TRUE, MaxRuns) }

LookupScenarios == LookupContentScenarios \cup LookupKindScenarios

\* header rows of the two data sheets
HeaderScenarios ==
    { Scenario(Workbook(BaseSheets, [InvoicesExpected EXCEPT ![7] = ih],
                        [DpaExpected EXCEPT ![4] = dh], ir, OneDpa),
               "lookup.xlsx", DefaultXlsx, TRUE, 1) :
        ih \in { "Split %", "SPLIT %", " split   % ", "Split", "Split Pct" },
        dh \in { "Posted On", "POSTED  ON", "Posted" },
        ir \in { <<>>, OneInvoice } }

\* sheets of the source workbook
SheetScenarios ==
    { Scenario([ Workbook(sh, InvoicesExpected, DpaExpected, OneInvoice, OneDpa)
                   EXCEPT !.loadable = l ],
               "lookup.xlsx", DefaultXlsx, TRUE, 1) :
        sh \in { BaseSheets,
                 << "Invoices", "Direct Payroll Adjustments" >>,
                 << "Direct Payroll Adjustments", "Invoices", "Non-job Purchase Orders" >>,
                 << "Invoices", "Non-job Purchase Orders" >>,
                 << "Direct Payroll Adjustments" >>,
                 << "Summary" >> },
        l \in BOOLEAN }

\* a merge followed by exports of the saved document
ExportScenarios ==
    { [ Scenario(PlainWorkbook, "lookup.xlsx", DefaultXlsx, w, 1)
          EXCEPT !.xbudget = MaxExports ] : w \in BOOLEAN }

\* the inputs on which a worker ends without a result: the files that cannot
\* be read or written, the sheets and headers that are missing, the export
SignalScenarios ==
    LookupKindScenarios \cup HeaderScenarios \cup SheetScenarios \cup ExportScenarios

Scenarios ==
    OrderScenarios \cup EligibilityScenarios \cup CustomerScenarios \cup
    LookupScenarios \cup HeaderScenarios \cup SheetScenarios \cup ExportScenarios

(***************************************************************************)
(* State.                                                                  *)
(***************************************************************************)
VARIABLES
    wb,                  \* the source workbook file
    user_lookup,         \* the lookup path the caller passes
    fs,                  \* lookup files on disk, by path
    writable,            \* whether the output directory can be written
    budget,              \* how many times the caller starts the merge
    out_file,            \* the combined workbook on disk, or NoDocument
    produced,            \* the documents saved so far, one per saving run
    pc,                  \* position of the worker
    runs,                \* runs started
    signal,              \* what the last run emitted: finished | failed
    log,                 \* records logged by the current run
    lookup_path,         \* ExcelInterface._lookup_path
    lookup_table,        \* ExcelInterface._lookup_table
    attrs,               \* which of _inv, _dpa have been set
    workbook,            \* ExcelInterface.workbook: its sheet names, or NoWorkbook
    sheets,              \* the sheets the composer creates, by title
    technician_dict,     \* ExcelInterface._technician_dict, in insertion order
    current_row,         \* ExcelInterface.current_row
    master_current_row,  \* ExcelInterface.master_current_row
    flag,                \* run_merge's result
    tech_idx,            \* position of run_merge's loop over technicians
    tech_name,           \* the technician being composed
    items_by_date,       \* _populate_tech_data: the sorted ledger
    invoice_customer_lookup, \* _populate_tech_data: invoice number -> customer
    item_idx,            \* position of the loop over items_by_date
    xbudget,             \* how many times the caller starts the PDF export
    excel,               \* MainWindow.excel: the interface of the last finished merge
    exports,             \* exports started
    pdf_signal,          \* what the last export emitted: finished | failed
    engine,              \* the Excel application the export drives: off | running
    com_wb,              \* whether the export has the document open in it
    ws_idx,              \* position of export_pdfs' loop over the worksheets
    attempted,           \* the sheets ExportAsFixedFormat was called on
    pages,               \* the sheets whose PDF was written by the export
    source_text,         \* MainWindow.source_wb_path_edit
    library_text,        \* MainWindow.library_path_edit
    output_text,         \* MainWindow.output_dir_edit
    run_btn,             \* whether "Merge Payroll Data" is enabled
    export_btn,          \* whether "Export PDFs" is enabled
    dialog,              \* the modal dialog that is open, or None
    merges,              \* merge workers started and not yet handled
    exporting,           \* export workers started and not yet handled
    exported_pdfs        \* MainWindow._exported_pdfs

env == << wb, user_lookup, writable, budget, xbudget >>
pdf == << exports, pdf_signal, engine, com_wb, ws_idx, attempted, pages >>
ui == << source_text, library_text, output_text, run_btn, export_btn, dialog,
         merges, exporting, exported_pdfs >>
disk == << fs, out_file, produced >>
worker == << pc, runs, signal >>
iface == << lookup_path, lookup_table, attrs, workbook, sheets, technician_dict,
            current_row, master_current_row, flag >>
locals == << tech_idx, tech_name, items_by_date, invoice_customer_lookup, item_idx >>
vars == << env, disk, worker, log, iface, locals, excel, pdf, ui >>

MasterName == "All Technicians"

EmptyTechnicianDict == [ order |-> <<>>, data |-> <<>> ]

\* PDFExportWorker and the Excel application before any export
PdfInit ==
    /\ exports = 0
    /\ pdf_signal = "none"
    /\ engine = "off"
    /\ com_wb = FALSE
    /\ ws_idx = 0
    /\ attempted = <<>>
    /\ pages = {}

\* MainWindow.__init__ and _setup_ui
UiInit ==
    /\ excel = None
    /\ source_text = ""
    /\ library_text = ""
    /\ output_text = ""
    /\ run_btn = FALSE
    /\ export_btn = FALSE
    /\ dialog = None
    /\ merges = 0
    /\ exporting = 0
    /\ exported_pdfs = FALSE

\* ExcelInterface.workbook while no file is loaded: no sheet names
NoWorkbook == <<>>

\* no combined workbook at the output path
NoDocument == [ sheetnames |-> <<>>, sheets |-> <<>> ]

\* the inputs are those of scenario sc
InputIs(sc) ==
    /\ wb = sc.wb
    /\ user_lookup = sc.lookup
    /\ fs = sc.files
    /\ writable = sc.writable
    /\ budget = sc.budget
    /\ xbudget = sc.xbudget

\* no worker has run
WorkerInit ==
    /\ out_file = NoDocument
    /\ produced = <<>>
    /\ pc = "idle"
    /\ runs = 0
    /\ signal = "none"
    /\ log = <<>>
    /\ lookup_path = None
    /\ lookup_table = EmptyDict
    /\ attrs = {}
    /\ workbook = NoWorkbook
    /\ sheets = <<>>
    /\ technician_dict = EmptyTechnicianDict
    /\ current_row = 1
    /\ master_current_row = 1
    /\ flag = FALSE
    /\ tech_idx = 0
    /\ tech_name = None
    /\ items_by_date = <<>>
    /\ invoice_customer_lookup = EmptyDict
    /\ item_idx = 0

(***************************************************************************)
(* MainWindow: the handlers of the buttons and of the workers' signals.    *)
(* A worker is started by a handler and is in flight until the handler of  *)
(* its finished or failed signal has run; what it does in between is the   *)
(* engine above.  A modal dialog runs an event loop of its own: while it   *)
(* is open no button of the window can be clicked, and signals of workers  *)
(* are handled.                                                            *)
(***************************************************************************)
NoPath == ""
PickedPaths == { NoPath, "picked" }

\* text_changed: the merge button is enabled when both paths are filled in
text_changed(source, library, enabled) ==
    IF source = NoPath THEN enabled
    ELSE IF library = NoPath THEN enabled
    ELSE TRUE

\* a Browse button is clicked: the file dialog opens
BrowseClicked(which) ==
    /\ dialog = None
    /\ dialog' = which
    /\ UNCHANGED << source_text, library_text, output_text, run_btn, export_btn,
                    merges, exporting, exported_pdfs, excel >>

\* _source_browse_clicked
SourceBrowseClicked == BrowseClicked("source")

\* _lookup_browse_clicked
LookupBrowseClicked == BrowseClicked("lookup")

\* _output_browse_clicked
OutputBrowseClicked == BrowseClicked("output")

\* the file dialog returns a path, or "" when cancelled; the result is never
\* None, so the text is set and text_changed runs either way
BrowseReturns ==
    /\ dialog \in { "source", "lookup", "output" }
    /\ \E path \in PickedPaths :
        /\ source_text' = IF dialog = "source" THEN path ELSE source_text
        /\ library_text' = IF dialog = "lookup" THEN path ELSE library_text
        /\ output_text' = IF dialog = "output" THEN path ELSE output_text
        /\ run_btn' = text_changed(source_text', library_text', run_btn)
    /\ dialog' = None
    /\ UNCHANGED << export_btn, merges, exporting, exported_pdfs, excel >>

\* MainWindow.run_merge: both buttons are disabled and a MergeWorker started
MergeClicked ==
    /\ dialog = None
    /\ run_btn
    /\ merges + exporting < MaxInFlight
    /\ run_btn' = FALSE
    /\ export_btn' = FALSE
    /\ merges' = merges + 1
    /\ UNCHANGED << source_text, library_text, output_text, dialog, exporting,
                    exported_pdfs, excel >>

\* _on_merge_finished
OnMergeFinished ==
    /\ merges > 0
    /\ merges' = merges - 1
    /\ excel' = "ExcelInterface"
    /\ output_text' = IF output_text = NoPath THEN "picked" ELSE output_text
    /\ export_btn' = TRUE
    /\ run_btn' = TRUE
    /\ UNCHANGED << source_text, library_text, dialog, exporting, exported_pdfs >>

\* _on_merge_failed
OnMergeFailed ==
    /\ merges > 0
    /\ merges' = merges - 1
    /\ run_btn' = TRUE
    /\ export_btn' = (excel # None)
    /\ UNCHANGED << source_text, library_text, output_text, dialog, exporting,
                    exported_pdfs, excel >>

\* MainWindow.export_pdfs, up to dialog.exec()
ExportClicked ==
    /\ dialog = None
    /\ export_btn
    /\ excel # None
    /\ dialog' = "print_date"
    /\ UNCHANGED << source_text, library_text, output_text, run_btn, export_btn,
                    merges, exporting, exported_pdfs, excel >>

\* dialog.exec() returns: on Cancel the handler returns, on Ok both buttons
\* are disabled and a PDFExportWorker is started
PrintDateReturns ==
    /\ dialog = "print_date"
    /\ dialog' = None
    /\ \/ UNCHANGED << run_btn, export_btn, exporting >>
       \/ /\ merges + exporting < MaxInFlight
          /\ run_btn' = FALSE
          /\ export_btn' = FALSE
          /\ exporting' = exporting + 1
    /\ UNCHANGED << source_text, library_text, output_text, merges,
                    exported_pdfs, excel >>

\* _on_pdf_finished
OnPdfFinished ==
    /\ exporting > 0
    /\ exporting' = exporting - 1
    /\ run_btn' = TRUE
    /\ export_btn' = TRUE
    /\ exported_pdfs' = TRUE
    /\ UNCHANGED << source_text, library_text, output_text, dialog, merges, excel >>

\* _on_pdf_failed
OnPdfFailed ==
    /\ exporting > 0
    /\ exporting' = exporting - 1
    /\ run_btn' = TRUE
    /\ export_btn' = TRUE
    /\ UNCHANGED << source_text, library_text, output_text, dialog, merges,
                    exported_pdfs, excel >>

\* the window once the caller has picked the three paths
PathsPicked ==
    /\ excel = None
    /\ source_text = "picked"
    /\ library_text = "picked"
    /\ output_text = "picked"
    /\ run_btn = text_changed("picked", "picked", FALSE)
    /\ export_btn = FALSE
    /\ dialog = None
    /\ merges = 0
    /\ exporting = 0
    /\ exported_pdfs = FALSE

Init ==
    /\ \E sc \in Scenarios : InputIs(sc)
    /\ WorkerInit
    /\ PdfInit
    /\ PathsPicked

(***************************************************************************)
(* MainWindow.run_merge starts a MergeWorker; MergeWorker.run starts:       *)
(* ExcelInterface.__init__ sets the fields.                                *)
(***************************************************************************)
StartRun ==
    /\ pc = "idle"
    /\ runs < budget
    /\ MergeClicked
    /\ runs' = runs + 1
    /\ signal' = "none"
    /\ log' = <<>>
    /\ lookup_path' = user_lookup
    /\ lookup_table' = EmptyDict
    /\ attrs' = {}
    /\ workbook' = NoWorkbook
    /\ sheets' = <<>>
    /\ technician_dict' = EmptyTechnicianDict
    /\ current_row' = 1
    /\ master_current_row' = 1
    /\ flag' = FALSE
    /\ tech_idx' = 0
    /\ tech_name' = None
    /\ items_by_date' = <<>>
    /\ invoice_customer_lookup' = EmptyDict
    /\ item_idx' = 0
    /\ pc' = "load_lookup"
    /\ UNCHANGED << pdf, env, disk >>

\* as if the exception left MergeWorker.run and no signal were emitted
Raise_no_signal ==
    /\ pc' = "idle"
    /\ UNCHANGED << signal, ui, excel >>

\* an exception leaves __init__ or run_merge: MergeWorker.run emits failed,
\* and the window handles the signal
Raise ==
    /\ pc' = "idle"
    /\ signal' = "failed"
    /\ OnMergeFailed

(***************************************************************************)
(* _load_lookup_table and _parse_lookup_wb.  They work on the lookup path, *)
(* the lookup table, the files and the log.                                *)
(***************************************************************************)
\* int(row[0].value): an int, or a str holding a number
Convertible(id) == id.ty \in {"int", "str"}
ToInt(id) == IntKey(id.v)

\* the loop over the lookup worksheet's rows, from row i on
\* as if a row that cannot be converted ended the loop
RECURSIVE ParseRows_stops_at_bad_row(_, _, _, _)
ParseRows_stops_at_bad_row(rows, i, table, lg) ==
    IF i > Len(rows) THEN [ table |-> table, log |-> lg ]
    ELSE IF Convertible(rows[i].id)
         THEN ParseRows_stops_at_bad_row(rows, i + 1,
                  DictSet(table, ToInt(rows[i].id), rows[i].name), lg)
         ELSE [ table |-> table, log |-> Append(lg, <<"critical", "lookup_row", i>>) ]

RECURSIVE ParseRows(_, _, _, _)
ParseRows(rows, i, table, lg) ==
    IF i > Len(rows) THEN [ table |-> table, log |-> lg ]
    ELSE IF Convertible(rows[i].id)
         THEN ParseRows(rows, i + 1, DictSet(table, ToInt(rows[i].id), rows[i].name), lg)
         ELSE ParseRows(rows, i + 1, table, Append(lg, <<"critical", "lookup_row", i>>))

\* json.dump writes every key as a string
JsonKey(k) == IF k.ty = "int" THEN StrKey(k.v) ELSE k
JsonDump(table) ==
    [ k \in { JsonKey(x) : x \in DOMAIN table } |->
        table[CHOOSE x \in DOMAIN table : JsonKey(x) = k] ]

RECURSIVE load_lookup_table(_)
RECURSIVE parse_lookup_wb(_)

\* as if the cache were written but neither re-pointed to nor read back
parse_lookup_wb_no_repoint(st) ==
    LET file == st.fs[st.lookup_path] IN
    IF ~file.sheet1
    THEN [ st EXCEPT !.log = Append(@, <<"critical", "lookup_no_sheet1">>) ]
    ELSE LET parsed == ParseRows(file.rows, 1, st.lookup_table, st.log) IN
         IF ~st.writable
         THEN [ st EXCEPT !.lookup_table = parsed.table,
                          !.log = Append(parsed.log, <<"critical", "lookup_load_failed">>) ]
         ELSE [ st EXCEPT !.lookup_table = parsed.table,
                          !.log = parsed.log,
                          !.fs = [ @ EXCEPT ![CachePath] = JsonFile(TRUE, JsonDump(parsed.table)) ] ]

parse_lookup_wb(st) ==
    LET file == st.fs[st.lookup_path] IN
    IF ~file.sheet1
    THEN [ st EXCEPT !.log = Append(@, <<"critical", "lookup_no_sheet1">>) ]
    ELSE LET parsed == ParseRows(file.rows, 1, st.lookup_table, st.log) IN
         IF ~st.writable
         THEN \* open(out_path, "w") raises: caught in _load_lookup_table
              [ st EXCEPT !.lookup_table = parsed.table,
                          !.log = Append(parsed.log, <<"critical", "lookup_load_failed">>) ]
         ELSE load_lookup_table(
                [ st EXCEPT !.lookup_table = parsed.table,
                            !.log = parsed.log,
                            !.fs = [ @ EXCEPT ![CachePath] = JsonFile(TRUE, JsonDump(parsed.table)) ],
                            !.lookup_path = CachePath ])

load_lookup_table(st) ==
    LET file == st.fs[st.lookup_path] IN
    CASE Suffix(st.lookup_path) = ".xlsx" ->
            IF file.kind = "xlsx" /\ file.ok
            THEN parse_lookup_wb(st)
            ELSE [ st EXCEPT !.log = Append(@, <<"critical", "lookup_load_failed">>) ]
      [] Suffix(st.lookup_path) = ".json" ->
            IF file.kind = "json" /\ file.ok
            THEN [ st EXCEPT !.lookup_table = file.table ]
            ELSE [ st EXCEPT !.log = Append(@, <<"critical", "lookup_load_failed">>) ]
      [] OTHER ->
            [ st EXCEPT !.log = Append(@, <<"critical", "lookup_unsupported">>) ]

LoadLookupTable ==
    /\ pc = "load_lookup"
    /\ LET st == load_lookup_table([ lookup_path |-> lookup_path,
                                     lookup_table |-> lookup_table,
                                     fs |-> fs, log |-> log,
                                     writable |-> writable ])
       IN /\ lookup_path' = st.lookup_path
          /\ lookup_table' = st.lookup_table
          /\ fs' = st.fs
          /\ log' = st.log
    /\ pc' = "connect"
    /\ UNCHANGED << ui, pdf, excel, env, out_file, produced, runs, signal, attrs, workbook, sheets,
                    technician_dict, current_row, master_current_row, flag, locals >>

(***************************************************************************)
(* _connect_main_wb                                                        *)
(***************************************************************************)
Has(names, n) == \E i \in 1..Len(names) : names[i] = n

connect_main_wb(w) ==
    IF ~w.loadable
    THEN [ workbook |-> NoWorkbook, attrs |-> {}, event |-> "workbook_load_failed" ]
    ELSE IF ~Has(w.sheetnames, "Invoices")
    THEN [ workbook |-> w.sheetnames, attrs |-> {}, event |-> "no_invoices_sheet" ]
    ELSE IF ~Has(w.sheetnames, "Direct Payroll Adjustments")
    THEN [ workbook |-> w.sheetnames, attrs |-> {"_inv"}, event |-> "no_dpa_sheet" ]
    ELSE [ workbook |-> w.sheetnames, attrs |-> {"_inv", "_dpa"}, event |-> "connected" ]

ConnectMainWb ==
    /\ pc = "connect"
    /\ LET r == connect_main_wb(wb)
       IN /\ workbook' = r.workbook
          /\ attrs' = r.attrs
          /\ log' = IF r.event = "connected" THEN log
                    ELSE Append(log, <<"critical", r.event>>)
    /\ pc' = "prepare"
    /\ UNCHANGED << ui, pdf, excel, env, disk, runs, signal, lookup_path, lookup_table, sheets,
                    technician_dict, current_row, master_current_row, flag, locals >>

(***************************************************************************)
(* _prepare_data                                                           *)
(***************************************************************************)
\* del self.workbook[<name>]
RECURSIVE RemoveName(_, _)
RemoveName(names, n) ==
    IF Len(names) = 0 THEN <<>>
    ELSE IF Head(names) = n THEN RemoveName(Tail(names), n)
    ELSE << Head(names) >> \o RemoveName(Tail(names), n)

\* as if a new technician were put in front of the known ones
TdAppend_newest_first(td, tech, field, rec) ==
    LET known == tech \in DOMAIN td.data
        old == IF known THEN td.data[tech] ELSE [ invoices |-> <<>>, dpa |-> <<>> ]
        new == [ old EXCEPT ![field] = Append(@, rec) ]
    IN [ order |-> IF known THEN td.order ELSE << tech >> \o td.order,
         data |-> (tech :> new) @@ td.data ]

\* self._technician_dict[tech][field].append(rec), on a defaultdict
TdAppend(td, tech, field, rec) ==
    LET known == tech \in DOMAIN td.data
        old == IF known THEN td.data[tech] ELSE [ invoices |-> <<>>, dpa |-> <<>> ]
        new == [ old EXCEPT ![field] = Append(@, rec) ]
    IN [ order |-> IF known THEN td.order ELSE Append(td.order, tech),
         data |-> (tech :> new) @@ td.data ]

RECURSIVE PopulateInvoices(_, _, _)
PopulateInvoices(rows, i, td) ==
    IF i > Len(rows) THEN td
    ELSE PopulateInvoices(rows, i + 1,
            TdAppend(td, rows[i].technician, "invoices", Invoice(rows[i])))

RECURSIVE PopulateDpas(_, _, _)
PopulateDpas(rows, i, td) ==
    IF i > Len(rows) THEN td
    ELSE PopulateDpas(rows, i + 1,
            TdAppend(td, rows[i].technician, "dpa", DirectPayrollAdjustment(rows[i])))

\* as if the sheet attributes were preset to empty sheets
PrepareRaises_sheets_preset ==
    Len(wb.inv_rows) > 0 /\ ~InvoiceAccepts(wb.inv_header)

\* self._inv / self._dpa were never set, or Invoice(**data) rejects a keyword
PrepareRaises ==
    \/ "_inv" \notin attrs
    \/ "_dpa" \notin attrs
    \/ Len(wb.inv_rows) > 0 /\ ~InvoiceAccepts(wb.inv_header)

prepare_data(td) ==
    PopulateDpas(wb.dpa_rows, 1, PopulateInvoices(wb.inv_rows, 1, td))

PrepareData ==
    /\ pc = "prepare"
    /\ IF PrepareRaises
       THEN /\ Raise
            /\ UNCHANGED << workbook, technician_dict >>
       ELSE /\ workbook' = RemoveName(RemoveName(workbook, "Commission Base Payroll Adj"),
                                      "Non-job Purchase Orders")
            /\ technician_dict' = prepare_data(technician_dict)
            /\ pc' = "integrity"
            /\ UNCHANGED << signal, ui, excel >>
    /\ UNCHANGED << pdf, env, disk, runs, log, lookup_path, lookup_table, attrs, sheets,
                    current_row, master_current_row, flag, locals >>

(***************************************************************************)
(* _assert_sheet_integrity and validate_header_row                         *)
(***************************************************************************)
Mismatches(expected, actual) ==
    { i \in 1..Len(expected) : Norm[actual[i]] # Norm[expected[i]] }

Smallest(S) == CHOOSE i \in S : \A j \in S : i <= j

\* logs the first mismatch and returns
validate_header_row(actual, expected, sheet_label, lg) ==
    IF Mismatches(expected, actual) = {} THEN lg
    ELSE LET i == Smallest(Mismatches(expected, actual))
         IN Append(lg, <<"critical", "header_mismatch", sheet_label, i,
                         expected[i], actual[i]>>)

AssertSheetIntegrity ==
    /\ pc = "integrity"
    /\ log' = validate_header_row(wb.dpa_header, DpaExpected,
                                  "Direct Payroll Adjustments",
                 validate_header_row(wb.inv_header, InvoicesExpected, "Invoices", log))
    /\ pc' = "merge"
    /\ UNCHANGED << ui, pdf, excel, env, disk, runs, signal, iface, locals >>

(***************************************************************************)
(* run_merge: the master sheet, then the loop over the technicians         *)
(***************************************************************************)
MasterIndex == 2

\* list.insert(index, x), 0-based
InsertAt(names, index, x) ==
    IF index >= Len(names) THEN Append(names, x)
    ELSE SubSeq(names, 1, index) \o << x >> \o SubSeq(names, index + 1, Len(names))

RunMergeBegin ==
    /\ pc = "merge"
    /\ workbook' = InsertAt(workbook, MasterIndex, MasterName)
    /\ sheets' = (MasterName :> EmptySheet) @@ sheets
    /\ tech_idx' = 1
    /\ pc' = "tech_loop"
    /\ UNCHANGED << ui, pdf, excel, env, disk, runs, signal, log, lookup_path, lookup_table, attrs,
                    technician_dict, current_row, master_current_row, flag,
                    tech_name, items_by_date, invoice_customer_lookup, item_idx >>

RECURSIVE SumGp(_)
SumGp(invoices) ==
    IF Len(invoices) = 0 THEN 0 ELSE Head(invoices).gp + SumGp(Tail(invoices))

\* without the clause that admits a technician who has adjustments
needs_to_be_created_gp_only(name, data) ==
    /\ name # None
    /\ (Len(data.invoices) > 0 \/ Len(data.dpa) > 0)
    /\ SumGp(data.invoices) > 0

\* without the clause on the gross profit and the adjustments
needs_to_be_created_any_entry(name, data) ==
    /\ name # None
    /\ (Len(data.invoices) > 0 \/ Len(data.dpa) > 0)

needs_to_be_created(name, data) ==
    /\ name # None
    /\ (Len(data.invoices) > 0 \/ Len(data.dpa) > 0)
    /\ (SumGp(data.invoices) > 0 \/ Len(data.dpa) > 0)

\* one iteration of the loop: skip the technician, or create its sheet and
\* enter _populate_tech_data; after the last one go on to save
NextTechnician ==
    /\ pc = "tech_loop"
    /\ IF tech_idx > Len(technician_dict.order)
       THEN /\ pc' = "save"
            /\ UNCHANGED << workbook, sheets, current_row, tech_idx, tech_name >>
       ELSE LET name == technician_dict.order[tech_idx] IN
            IF ~needs_to_be_created(name, technician_dict.data[name])
            THEN /\ tech_idx' = tech_idx + 1
                 /\ UNCHANGED << pc, workbook, sheets, current_row, tech_name >>
            ELSE /\ workbook' = Append(workbook, name)
                 /\ sheets' = (name :> EmptySheet) @@ sheets
                 /\ tech_name' = name
                 /\ current_row' = 1
                 /\ pc' = "title"
                 /\ UNCHANGED tech_idx
    /\ UNCHANGED << ui, pdf, excel, env, disk, runs, signal, log, lookup_path, lookup_table, attrs,
                    technician_dict, master_current_row, flag,
                    items_by_date, invoice_customer_lookup, item_idx >>

(***************************************************************************)
(* _populate_tech_data, row by row                                         *)
(***************************************************************************)
FirstDataRow == 3

\* ='<tech>'!<c>: a reference without the guard for blank cells
get_cell_ref_unguarded(tech, col, row) == << "bare_ref", tech, col, row >>

\* =IF('<tech>'!<c>="","",'<tech>'!<c>), c a column and a row of tech's sheet
get_cell_ref(tech, col, row) == << "ref", tech, col, row >>

\* as if create_header_row advanced the detail cursor only
TitleRow_detail_cursor_only ==
    /\ pc = "title"
    /\ sheets' = [ sheets EXCEPT
            ![tech_name] = SheetSetRow(@, current_row, << Str(tech_name) >>),
            ![MasterName] = SheetSetRow(@, master_current_row, << Str(tech_name) >>) ]
    /\ current_row' = current_row + 1
    /\ master_current_row' = master_current_row
    /\ pc' = "labels"
    /\ UNCHANGED << ui, pdf, excel, env, disk, runs, signal, log, lookup_path, lookup_table, attrs,
                    workbook, technician_dict, flag, locals >>

\* create_header_row: the text in column A of the cursor row of both sheets
TitleRow ==
    /\ pc = "title"
    /\ sheets' = [ sheets EXCEPT
            ![tech_name] = SheetSetRow(@, current_row, << Str(tech_name) >>),
            ![MasterName] = SheetSetRow(@, master_current_row, << Str(tech_name) >>) ]
    /\ current_row' = current_row + 1
    /\ master_current_row' = master_current_row + 1
    /\ pc' = "labels"
    /\ UNCHANGED << ui, pdf, excel, env, disk, runs, signal, log, lookup_path, lookup_table, attrs,
                    workbook, technician_dict, flag, locals >>

header_items ==
    << Str("Invoice"), Str("Invoiced On"), Str("Customer Name"), Str("Memo"),
       Str("Amount") >>

master_header_items ==
    header_items \o
    << Str("Subtotal"), Str("Commission (S)"), Str("Commission (I)"), Str("SPIFFS"),
       Str("Sales Commission"), Str("Truck Revenue"), Str("Marketing Commission") >>

\* the sort key: invoiced_on for invoices, posted_on for adjustments
SortKey(item) == IF IsInvoice(item) THEN item.invoiced_on ELSE item.posted_on

\* inserting before the entries of equal key: ties come out reversed
RECURSIVE InsertByKey_before_ties(_, _)
InsertByKey_before_ties(s, x) ==
    IF Len(s) = 0 THEN << x >>
    ELSE IF SortKey(x) <= SortKey(Head(s)) THEN << x >> \o s
    ELSE << Head(s) >> \o InsertByKey_before_ties(Tail(s), x)

\* sorted(combined, key=...): a stable sort
RECURSIVE InsertByKey(_, _)
InsertByKey(s, x) ==
    IF Len(s) = 0 THEN << x >>
    ELSE IF SortKey(x) < SortKey(Head(s)) THEN << x >> \o s
    ELSE << Head(s) >> \o InsertByKey(Tail(s), x)

RECURSIVE Sorted(_)
Sorted(s) ==
    IF Len(s) = 0 THEN <<>>
    ELSE InsertByKey(Sorted(SubSeq(s, 1, Len(s) - 1)), s[Len(s)])

\* {inv.invoice: inv.customer for inv in tech_invoices}: a later invoice
\* with the same number replaces an earlier one
RECURSIVE CustomerLookup(_)
CustomerLookup(invoices) ==
    IF Len(invoices) = 0 THEN EmptyDict
    ELSE DictSet(CustomerLookup(SubSeq(invoices, 1, Len(invoices) - 1)),
                 invoices[Len(invoices)].invoice,
                 invoices[Len(invoices)].customer)

\* the label rows, then the locals of the loop over the ledger
LabelRows ==
    /\ pc = "labels"
    /\ sheets' = [ sheets EXCEPT
            ![tech_name] = SheetAppend(@, header_items),
            ![MasterName] = SheetAppend(@, master_header_items) ]
    /\ current_row' = current_row + 1
    /\ master_current_row' = master_current_row + 1
    /\ LET tech_invoices == technician_dict.data[tech_name].invoices
           tech_dpas == technician_dict.data[tech_name].dpa
       IN /\ items_by_date' = Sorted(tech_invoices \o tech_dpas)
          /\ invoice_customer_lookup' = CustomerLookup(tech_invoices)
    /\ item_idx' = 1
    /\ pc' = "rows"
    /\ UNCHANGED << ui, pdf, excel, env, disk, runs, signal, log, lookup_path, lookup_table, attrs,
                    workbook, technician_dict, flag, tech_idx, tech_name >>

Amount(item) == IF IsInvoice(item) THEN item.gp ELSE item.amount
Memo(item) == IF IsInvoice(item) THEN "---" ELSE item.memo

\* skipping every entry of amount 0, adjustments too
Skipped_any_zero(item) == Amount(item) = 0

\* skipping the invoices of negative amount too
Skipped_nonpositive(item) == Amount(item) <= 0 /\ IsInvoice(item)

\* an invoice of amount 0 is not written
Skipped(item) == Amount(item) = 0 /\ IsInvoice(item)

\* the customer written for an item: the technician's invoice of that number,
\* else the lookup table, else ""
ResolveCustomer(item, icl, table) ==
    LET customer == DictGet(icl, item.invoice, None)
    IN IF customer = None THEN DictGet(table, item.invoice, "") ELSE customer

\* whether the lookup table was asked and gave ""
WarnsMissing(item, icl, table) ==
    /\ DictGet(icl, item.invoice, None) = None
    /\ DictGet(table, item.invoice, "") = ""

DataValues(item, icl, table) ==
    << InvNo(item.invoice), Strftime(SortKey(item)),
       PyCell(ResolveCustomer(item, icl, table)), PyCell(Memo(item)),
       Num(Amount(item)) >>

\* append_row(values, True): the values on the detail sheet, references to
\* the detail row on the master sheet
append_row(sh, tech, values, row, mrow) ==
    [ sh EXCEPT
        ![tech] = SheetAppend(@, values),
        ![MasterName] = SheetSetRow(@, mrow,
                            [ c \in 1..5 |-> get_cell_ref(tech, c, row) ]) ]

\* one iteration of the loop over items_by_date
DataRow ==
    /\ pc = "rows"
    /\ item_idx <= Len(items_by_date)
    /\ LET inv == items_by_date[item_idx] IN
       IF Skipped(inv)
       THEN UNCHANGED << sheets, current_row, master_current_row, log >>
       ELSE /\ log' = IF WarnsMissing(inv, invoice_customer_lookup, lookup_table)
                      THEN Append(log, <<"warning", "missing_customer", inv.invoice, tech_name>>)
                      ELSE log
            /\ sheets' = append_row(sheets, tech_name,
                            DataValues(inv, invoice_customer_lookup, lookup_table),
                            current_row, master_current_row)
            /\ current_row' = current_row + 1
            /\ master_current_row' = master_current_row + 1
    /\ item_idx' = item_idx + 1
    /\ UNCHANGED << ui, pdf, excel, env, disk, worker, lookup_path, lookup_table, attrs, workbook,
                    technician_dict, flag, tech_idx, tech_name, items_by_date,
                    invoice_customer_lookup >>

\* a sum that runs through the cursor row, the total row itself
TotalFormula_through_cursor(row) == SumFormula(FirstDataRow, row)

\* f"=SUM(E3:E{self.current_row - 1})", row the cursor row
TotalFormula(row) == SumFormula(FirstDataRow, row - 1)

\* the total rows, the formatting, and back to run_merge's loop
TotalRow ==
    /\ pc = "rows"
    /\ item_idx > Len(items_by_date)
    /\ sheets' = [ sheets EXCEPT
            ![tech_name] =
                SheetTouch(
                    SheetAppend(@, << Str(""), Str(""), Str(""), Str("Total:"),
                                      TotalFormula(current_row) >>),
                    current_row + 1),
            ![MasterName] =
                SheetAppend(@, << Str(""), Str(""), Str(""), Str(""), Str("Total:"),
                                  get_cell_ref(tech_name, 5, current_row) >>) ]
    /\ current_row' = current_row + 1
    /\ master_current_row' = master_current_row + 1
    /\ tech_idx' = tech_idx + 1
    /\ pc' = "tech_loop"
    /\ UNCHANGED << ui, pdf, excel, env, disk, runs, signal, log, lookup_path, lookup_table, attrs,
                    workbook, technician_dict, flag, tech_name, items_by_date,
                    invoice_customer_lookup, item_idx >>

(***************************************************************************)
(* run_merge: save the workbook, remove the lookup file, return the flag   *)
(***************************************************************************)
Document == [ sheetnames |-> workbook, sheets |-> sheets ]

SaveOutcomes == IF writable THEN { "saved", "locked", "error" } ELSE { "locked", "error" }

SaveWorkbook ==
    /\ pc = "save"
    /\ \E outcome \in SaveOutcomes :
        IF outcome = "saved"
        THEN /\ out_file' = Document
             /\ produced' = Append(produced, Document)
             /\ flag' = TRUE
             /\ UNCHANGED log
        ELSE /\ log' = Append(log, <<"critical", "save_failed", outcome>>)
             /\ flag' = FALSE
             /\ UNCHANGED << out_file, produced >>
    /\ pc' = "cleanup"
    /\ UNCHANGED << ui, pdf, excel, env, fs, runs, signal, lookup_path, lookup_table, attrs, workbook,
                    sheets, technician_dict, current_row, master_current_row, locals >>

\* as if a failure of unlink left run_merge as an exception
Cleanup_unlink_raises ==
    /\ pc = "cleanup"
    /\ IF Exists(fs, lookup_path)
       THEN \/ /\ fs' = [ fs EXCEPT ![lookup_path] = AbsentFile ]
               /\ pc' = "idle"
               /\ signal' = "finished"
               /\ OnMergeFinished
               /\ UNCHANGED log
            \/ /\ log' = Append(log, <<"error", "remove_failed">>)
               /\ Raise
               /\ UNCHANGED fs
       ELSE /\ pc' = "idle"
            /\ signal' = "finished"
            /\ OnMergeFinished
            /\ UNCHANGED << fs, log >>
    /\ UNCHANGED << pdf, env, out_file, produced, runs, iface, locals >>

\* the file at _lookup_path is unlinked if it exists; a failure is logged.
\* run_merge returns, MergeWorker.run emits finished with the interface, and
\* the window handles the signal (_on_merge_finished).
Cleanup ==
    /\ pc = "cleanup"
    /\ IF Exists(fs, lookup_path)
       THEN \/ /\ fs' = [ fs EXCEPT ![lookup_path] = AbsentFile ]
               /\ UNCHANGED log
            \/ /\ log' = Append(log, <<"error", "remove_failed">>)
               /\ UNCHANGED fs
       ELSE UNCHANGED << fs, log >>
    /\ pc' = "idle"
    /\ signal' = "finished"
    /\ OnMergeFinished
    /\ UNCHANGED << pdf, env, out_file, produced, runs, iface, locals >>

(***************************************************************************)
(* PDFExportWorker.run and export_pdfs.  The export drives the Excel        *)
(* application over COM; each call into it either returns or raises.       *)
(***************************************************************************)
\* os.name == "nt": the module imports win32com and pywintypes when it is
\* loaded, so an interface only exists on Windows
IS_WINDOWS == TRUE

sheets_to_skip == { "Invoices", "Direct Payroll Adjustments", MasterName }

\* MainWindow.export_pdfs with the print date accepted: PDFExportWorker.run
\* is started on the interface the window holds
StartExport ==
    /\ pc = "idle"
    /\ exports < xbudget
    /\ dialog = None
    /\ export_btn
    /\ excel # None
    /\ run_btn' = FALSE
    /\ export_btn' = FALSE
    /\ exporting' = exporting + 1
    /\ exports' = exports + 1
    /\ pdf_signal' = "none"
    /\ ws_idx' = 0
    /\ attempted' = <<>>
    /\ pages' = {}
    /\ pc' = "dispatch"
    /\ UNCHANGED << source_text, library_text, output_text, dialog, merges,
                    exported_pdfs, excel, env, disk, runs, signal, log, iface,
                    locals, engine, com_wb >>

\* export_pdfs returns: PDFExportWorker.run emits finished, and the window
\* handles the signal
ExportReturns ==
    /\ pc' = "idle"
    /\ pdf_signal' = "finished"
    /\ OnPdfFinished

\* an exception leaves export_pdfs: PDFExportWorker.run emits failed, and
\* the window handles the signal
ExportRaises ==
    /\ pc' = "idle"
    /\ pdf_signal' = "failed"
    /\ OnPdfFailed

\* the platform check, win32.Dispatch("Excel.Application"), and the mkdir of
\* the PDFs directory; none of them is inside a try
ExportDispatch ==
    /\ pc = "dispatch"
    /\ IF ~IS_WINDOWS
       THEN /\ log' = Append(log, <<"critical", "pdf_unsupported_platform">>)
            /\ ExportReturns
            /\ UNCHANGED engine
       ELSE \/ \* Dispatch raises: the application cannot be started
               /\ ExportRaises
               /\ UNCHANGED << engine, log >>
            \/ \* the application runs, mkdir raises
               /\ ~writable
               /\ engine' = "running"
               /\ ExportRaises
               /\ UNCHANGED log
            \/ /\ engine' = "running"
               /\ pc' = "open"
               /\ UNCHANGED << pdf_signal, log, ui, excel >>
    /\ UNCHANGED << env, disk, runs, signal, iface, locals,
                    exports, com_wb, ws_idx, attempted, pages >>

\* the finally clause: wb.Close(False) if the document was opened, Quit
ExportFinally ==
    /\ com_wb' = FALSE
    /\ engine' = "off"

\* Workbooks.Open(out_wb_path): the document the last save left at the path,
\* if any.  A failure is logged and export_pdfs returns.
ExportOpen ==
    /\ pc = "open"
    /\ \/ /\ out_file # NoDocument
          /\ com_wb' = TRUE
          /\ ws_idx' = 1
          /\ pc' = "tabs"
          /\ UNCHANGED << engine, pdf_signal, log, ui, excel >>
       \/ /\ log' = Append(log, <<"critical", "pdf_open_failed">>)
          /\ ExportFinally
          /\ ExportReturns
          /\ UNCHANGED ws_idx
    /\ UNCHANGED << env, disk, runs, signal, iface, locals,
                    exports, attempted, pages >>

\* one iteration of the loop over wb.Worksheets: the page setup, then
\* ExportAsFixedFormat inside its own try.  A com_error of the export call
\* is logged and the loop continues; an error of the page setup reaches the
\* outer handler, which logs it and returns.
ExportTab ==
    /\ pc = "tabs"
    /\ ws_idx <= Len(out_file.sheetnames)
    /\ LET name == out_file.sheetnames[ws_idx] IN
       IF name \in sheets_to_skip
       THEN /\ ws_idx' = ws_idx + 1
            /\ UNCHANGED << pc, pdf_signal, log, engine, com_wb, attempted, pages,
                            ui, excel >>
       ELSE \/ /\ attempted' = Append(attempted, name)
               /\ pages' = pages \cup { name }
               /\ ws_idx' = ws_idx + 1
               /\ UNCHANGED << pc, pdf_signal, log, engine, com_wb, ui, excel >>
            \/ /\ attempted' = Append(attempted, name)
               /\ log' = Append(log, <<"critical", "pdf_export_failed", name>>)
               /\ ws_idx' = ws_idx + 1
               /\ UNCHANGED << pc, pdf_signal, engine, com_wb, pages, ui, excel >>
            \/ /\ log' = Append(log, <<"critical", "pdf_open_failed">>)
               /\ ExportFinally
               /\ ExportReturns
               /\ UNCHANGED << ws_idx, attempted, pages >>
    /\ UNCHANGED << env, disk, runs, signal, iface, locals, exports >>

\* the loop is over: the finally clause, and export_pdfs returns
ExportClose ==
    /\ pc = "tabs"
    /\ ws_idx > Len(out_file.sheetnames)
    /\ ExportFinally
    /\ ExportReturns
    /\ UNCHANGED << env, disk, runs, signal, log, iface, locals,
                    exports, ws_idx, attempted, pages >>

Next ==
    \/ StartRun
    \/ LoadLookupTable
    \/ ConnectMainWb
    \/ PrepareData
    \/ AssertSheetIntegrity
    \/ RunMergeBegin
    \/ NextTechnician
    \/ TitleRow
    \/ LabelRows
    \/ DataRow
    \/ TotalRow
    \/ SaveWorkbook
    \/ Cleanup
    \/ StartExport
    \/ ExportDispatch
    \/ ExportOpen
    \/ ExportTab
    \/ ExportClose

Spec == Init /\ [][Next]_vars

\* the steps of a started worker and of the handler of its signal: the
\* worker's thread runs them to the end once it has been started
WorkerStep ==
    \/ LoadLookupTable
    \/ ConnectMainWb
    \/ PrepareData
    \/ AssertSheetIntegrity
    \/ RunMergeBegin
    \/ NextTechnician
    \/ TitleRow
    \/ LabelRows
    \/ DataRow
    \/ TotalRow
    \/ SaveWorkbook
    \/ Cleanup
    \/ ExportDispatch
    \/ ExportOpen
    \/ ExportTab
    \/ ExportClose

\* what a step of a worker changes: its position, or that of one of its loops
position == << pc, tech_idx, item_idx, ws_idx >>

LiveInit ==
    \E sc \in SignalScenarios : InputIs(sc) /\ WorkerInit /\ PdfInit /\ PathsPicked

LiveSpec == LiveInit /\ [][Next]_vars /\ WF_position(WorkerStep)

engine_vars == << env, disk, worker, log, iface, locals, pdf >>

UiNext ==
    \/ SourceBrowseClicked /\ UNCHANGED engine_vars
    \/ LookupBrowseClicked /\ UNCHANGED engine_vars
    \/ OutputBrowseClicked /\ UNCHANGED engine_vars
    \/ BrowseReturns /\ UNCHANGED engine_vars
    \/ MergeClicked /\ UNCHANGED engine_vars
    \/ OnMergeFinished /\ UNCHANGED engine_vars
    \/ OnMergeFailed /\ UNCHANGED engine_vars
    \/ ExportClicked /\ UNCHANGED engine_vars
    \/ PrintDateReturns /\ UNCHANGED engine_vars
    \/ OnPdfFinished /\ UNCHANGED engine_vars
    \/ OnPdfFailed /\ UNCHANGED engine_vars

\* the window as it is shown, before any worker has been started
WindowInit ==
    /\ InputIs(Scenario(PlainWorkbook, "lookup.xlsx", DefaultXlsx, TRUE, 0))
    /\ WorkerInit
    /\ PdfInit
    /\ UiInit

UiSpec == WindowInit /\ [][UiNext]_vars

(***************************************************************************)
(* Properties.                                                             *)
(***************************************************************************)
DetailTitles == DOMAIN sheets \ { MasterName }
Master == sheets[MasterName]

\* the run got through run_merge's loop over the technicians
LoopDone == pc \in { "save", "cleanup" } \/ (pc = "idle" /\ signal = "finished")

\* a technician's section is being written
Composing == pc \in { "title", "labels", "rows" }

\* the detail sheets whose total row has been written
Complete(t) == t \in DetailTitles /\ ~(Composing /\ t = tech_name)

\* a data row of a detail sheet: five cells, the first an invoice number
IsDataRow(row) == Len(row) = 5 /\ row[1][1] = "inv"

\* what Excel shows for a cell: a guarded reference shows "" for a blank
\* cell, an unguarded one shows 0
IsReference(c) == c[1] \in { "ref", "bare_ref" }
Shown(c) ==
    IF ~IsReference(c) THEN c
    ELSE LET target == sheets[c[2]][c[4]][c[3]]
         IN IF ~IsBlankCell(target) THEN target
            ELSE IF c[1] = "ref" THEN Str("") ELSE Num(0)

RefersTo(c, t, col, r) == IsReference(c) /\ c[2] = t /\ c[3] = col /\ c[4] = r

\* the master rows whose first five cells refer to A..E of row r of sheet t
Mirrors(t, r) ==
    { m \in 1..Len(Master) :
        /\ Len(Master[m]) >= 5
        /\ \A c \in 1..5 : RefersTo(Master[m][c], t, c, r) }

\* C1: every data row R of a technician's sheet has exactly one master row
\* whose first five cells are references to A..E of row R of that sheet, and
\* each reference shows the detail cell's value, or "" (never 0) when the
\* detail cell is blank.
C1_MasterMirrorsDetail ==
    \A t \in DetailTitles : \A r \in 1..Len(sheets[t]) :
        IsDataRow(sheets[t][r]) =>
            /\ Cardinality(Mirrors(t, r)) = 1
            /\ \A m \in Mirrors(t, r) : \A c \in 1..5 :
                  Shown(Master[m][c]) =
                      IF IsBlankCell(sheets[t][r][c]) THEN Str("") ELSE sheets[t][r][c]

\* a finished run with a mirrored data row whose customer cell is blank
C1_Witness ==
    /\ pc = "idle" /\ signal = "finished"
    /\ \E t \in DetailTitles : \E r \in 1..Len(sheets[t]) :
          /\ IsDataRow(sheets[t][r])
          /\ IsBlankCell(sheets[t][r][3])
          /\ \E m \in Mirrors(t, r) : Shown(Master[m][3]) = Str("")

\* the ledger entries of technician t kept by the zero-amount-invoice filter,
\* counted on the parsed records
RECURSIVE CountNonZero(_)
CountNonZero(invoices) ==
    IF Len(invoices) = 0 THEN 0
    ELSE (IF Head(invoices).gp # 0 THEN 1 ELSE 0) + CountNonZero(Tail(invoices))

RetainedCount(t) ==
    CountNonZero(technician_dict.data[t].invoices) + Len(technician_dict.data[t].dpa)

\* C2: a finished detail sheet has as many rows as the technician has ledger
\* entries kept by the zero-amount-invoice filter, plus the title row, the
\* label row and the total row.
C2_DetailRowCount ==
    \A t \in DetailTitles : Complete(t) => UsedRows(sheets[t]) = RetainedCount(t) + 3

\* a finished sheet of a technician one of whose invoices was filtered out
C2_Witness ==
    \E t \in DetailTitles :
        /\ Complete(t)
        /\ RetainedCount(t) >= 2
        /\ RetainedCount(t) <
             Len(technician_dict.data[t].invoices) + Len(technician_dict.data[t].dpa)

\* the ledger of the technician in tech_name has been sorted
LedgerSorted == pc = "rows" \/ (tech_name # None /\ ~Composing)

Combined == technician_dict.data[tech_name].invoices \o technician_dict.data[tech_name].dpa

OfKey(s, k) == LET Test(x) == SortKey(x) = k IN SelectSeq(s, Test)

\* the entries among the first n of the ledger that are written
RECURSIVE Written(_, _)
Written(items, n) ==
    IF n = 0 THEN <<>>
    ELSE IF Amount(items[n]) = 0 /\ IsInvoice(items[n]) THEN Written(items, n - 1)
    ELSE Append(Written(items, n - 1), items[n])

DataRowsOf(ws) == LET Test(row) == IsDataRow(row) IN SelectSeq(ws, Test)

\* C3: the data rows of a technician's sheet are the kept entries in
\* non-decreasing order of their date (invoiced_on, posted_on), and entries
\* of equal date keep their input order (invoices, then adjustments).
C3_LedgerOrder ==
    LedgerSorted =>
        /\ Len(items_by_date) = Len(Combined)
        /\ \A i, j \in 1..Len(items_by_date) :
              i < j => SortKey(items_by_date[i]) <= SortKey(items_by_date[j])
        /\ \A k \in Stamps : OfKey(items_by_date, k) = OfKey(Combined, k)
        /\ LET rows == DataRowsOf(sheets[tech_name])
               done == Written(items_by_date, item_idx - 1)
           IN /\ Len(rows) = Len(done)
              /\ \A i \in 1..Len(rows) :
                    /\ rows[i][1] = InvNo(done[i].invoice)
                    /\ rows[i][2] = DateText(SortKey(done[i]) \div SlotsPerDay)
                    /\ rows[i][5] = Num(Amount(done[i]))
              /\ \A i, j \in 1..Len(rows) : i < j => rows[i][2][2] <= rows[j][2][2]

\* a written ledger in which an adjustment and an invoice of one date follow
\* an entry that came later in the input
C3_Witness ==
    /\ pc = "idle" /\ signal = "finished" /\ tech_name # None
    /\ Len(items_by_date) >= 3
    /\ items_by_date # Combined
    /\ \E i \in 1..(Len(items_by_date) - 1) :
          /\ IsInvoice(items_by_date[i])
          /\ ~IsInvoice(items_by_date[i + 1])
          /\ SortKey(items_by_date[i]) = SortKey(items_by_date[i + 1])

\* the technicians named in the rows of the two data sheets
RowsOf(t) ==
    [ invoices |-> LET Test(r) == r.technician = t IN SelectSeq(wb.inv_rows, Test),
      dpa |-> LET Test(r) == r.technician = t IN SelectSeq(wb.dpa_rows, Test) ]

SourceTechnicians ==
    { wb.inv_rows[i].technician : i \in 1..Len(wb.inv_rows) } \cup
    { wb.dpa_rows[i].technician : i \in 1..Len(wb.dpa_rows) }

RECURSIVE GpTotal(_)
GpTotal(rows) == IF Len(rows) = 0 THEN 0 ELSE Head(rows).gp + GpTotal(Tail(rows))

Eligible(t) ==
    /\ t # None
    /\ (Len(RowsOf(t).invoices) > 0 \/ Len(RowsOf(t).dpa) > 0)
    /\ (GpTotal(RowsOf(t).invoices) > 0 \/ Len(RowsOf(t).dpa) > 0)

RowOf(i) == sheets[tech_name][2 + Len(Written(items_by_date, i))]

\* the entries of the ledger that have been written
WrittenIdx == { i \in 1..(item_idx - 1) :
                  ~(Amount(items_by_date[i]) = 0 /\ IsInvoice(items_by_date[i])) }

IsBlankName(s) == s = None \/ s = ""

\* the lookup table has an entry for the invoice number
InLookup(number) == \E k \in DOMAIN lookup_table : k.v = number.v
LookupName(number) == lookup_table[CHOOSE k \in DOMAIN lookup_table : k.v = number.v]

\* C5: the customer written for a kept invoice is the invoice's own customer
\* when that is present and not blank; otherwise, when the lookup table has
\* the invoice number, the lookup table's name for it.
C5_CustomerResolution ==
    LedgerSorted =>
        \A i \in WrittenIdx :
            LET item == items_by_date[i] IN
            IsInvoice(item) =>
                IF ~IsBlankName(item.customer)
                THEN RowOf(i)[3] = Str(item.customer)
                ELSE InLookup(item.invoice) =>
                        RowOf(i)[3] = PyCell(LookupName(item.invoice))

\* the customer of an entry is found neither on an invoice of the technician
\* with that number nor in the lookup table
Unresolvable(item) ==
    /\ ~InLookup(item.invoice)
    /\ \A j \in 1..Len(technician_dict.data[tech_name].invoices) :
          LET inv == technician_dict.data[tech_name].invoices[j]
          IN inv.invoice = item.invoice => IsBlankName(inv.customer)

MissingWarnings(number) ==
    LET Test(e) == /\ e[1] = "warning" /\ e[2] = "missing_customer"
                   /\ e[3] = number /\ e[4] = tech_name
    IN Len(SelectSeq(log, Test))

\* C6: for every written entry whose customer can be resolved neither from
\* the invoice nor from the lookup table, the customer cell is blank and a
\* warning naming the invoice and the technician is logged for it.
C6_MissingCustomerWarned ==
    LedgerSorted =>
        \A i \in WrittenIdx :
            Unresolvable(items_by_date[i]) =>
                /\ IsBlankCell(RowOf(i)[3])
                /\ MissingWarnings(items_by_date[i].invoice) >=
                     Cardinality({ j \in WrittenIdx :
                                     /\ Unresolvable(items_by_date[j])
                                     /\ items_by_date[j].invoice = items_by_date[i].invoice })

(***************************************************************************)
(* The lookup table                                                        *)
(***************************************************************************)
\* the mapping parsed from the structured source the caller named
DirectlyParsed == ParseRows(fs[user_lookup].rows, 1, EmptyDict, <<>>).table

\* the structured source was converted to the cache and reloaded from it
Reloaded == Suffix(user_lookup) = ".xlsx" /\ lookup_path = CachePath

InvoiceNumbers == { IntKey(1), IntKey(2) }

\* C7: the mapping reloaded from the cache artifact is the integer-keyed
\* mapping parsed from the structured source, keys and values, and a lookup
\* by integer invoice number gives the same result against both.
C7_LookupRoundTrip ==
    Reloaded =>
        /\ lookup_table = DirectlyParsed
        /\ \A n \in InvoiceNumbers :
              DictGet(lookup_table, n, "") = DictGet(DirectlyParsed, n, "")

\* same sheets, same number of rows on each, same customer names
StructurallyIdentical(a, b) ==
    /\ a.sheetnames = b.sheetnames
    /\ DOMAIN a.sheets = DOMAIN b.sheets
    /\ \A t \in DOMAIN a.sheets :
          /\ UsedRows(a.sheets[t]) = UsedRows(b.sheets[t])
          /\ \A r \in 1..UsedRows(a.sheets[t]) :
                IsDataRow(a.sheets[t][r]) =>
                    /\ IsDataRow(b.sheets[t][r])
                    /\ a.sheets[t][r][3] = b.sheets[t][r][3]

\* C8: two successive runs on the same source workbook path and the same
\* lookup path save structurally identical documents.
C8_Idempotent ==
    \A i \in 1..(Len(produced) - 1) : StructurallyIdentical(produced[i], produced[i + 1])

(***************************************************************************)
(* Structural errors of the source workbook                                *)
(***************************************************************************)
HeaderMismatch ==
    \/ Mismatches(InvoicesExpected, wb.inv_header) # {}
    \/ Mismatches(DpaExpected, wb.dpa_header) # {}

\* C9: when a header cell of either data sheet does not normalize to the
\* expected name, parsing fails: no technician record is built, no document
\* is composed or saved, and the run does not finish.
C9_HeaderMismatchAborts ==
    HeaderMismatch =>
        /\ technician_dict = EmptyTechnicianDict
        /\ sheets = <<>>
        /\ out_file = NoDocument
        /\ signal # "finished"

MissingSheet ==
    \/ ~Has(wb.sheetnames, "Invoices")
    \/ ~Has(wb.sheetnames, "Direct Payroll Adjustments")

\* C10: when a required data sheet is absent the run goes no further than
\* the first step of parsing: no record is built, nothing is composed, no
\* document is saved, and the run ends with the failed signal.
C10_MissingSheetAborts ==
    MissingSheet =>
        /\ pc \in { "idle", "load_lookup", "connect", "prepare" }
        /\ technician_dict = EmptyTechnicianDict
        /\ sheets = <<>>
        /\ out_file = NoDocument
        /\ signal # "finished"
        /\ (pc = "idle" /\ runs > 0 => signal = "failed")

\* a run on a loadable workbook that has Invoices but lacks the adjustments
\* sheet has ended with the failed signal
C10_Witness ==
    /\ wb.loadable
    /\ Has(wb.sheetnames, "Invoices")
    /\ ~Has(wb.sheetnames, "Direct Payroll Adjustments")
    /\ pc = "idle" /\ runs > 0 /\ signal = "failed"

(***************************************************************************)
(* Errors of the lookup source, and the cache artifact                     *)
(***************************************************************************)
LogHas(e) == \E i \in 1..Len(log) : log[i] = e

\* the current run found the lookup source unsupported, without Sheet1, or
\* an undecodable JSON file
LookupRejected ==
    \/ LogHas(<<"critical", "lookup_unsupported">>)
    \/ LogHas(<<"critical", "lookup_no_sheet1">>)
    \/ /\ LogHas(<<"critical", "lookup_load_failed">>)
       /\ Suffix(user_lookup) = ".json"
       /\ fs[user_lookup].kind = "json"
       /\ ~fs[user_lookup].ok

\* C11: when the lookup source is of an unsupported format, lacks the
\* expected sheet, or is a JSON file that cannot be decoded, the run is
\* aborted: nothing is composed, no document is saved, and the run does not
\* end with the finished signal.
C11_LookupErrorAborts ==
    LookupRejected =>
        /\ sheets = <<>>
        /\ out_file = NoDocument
        /\ produced = <<>>
        /\ signal # "finished"

\* the caller's .xlsx lookup source loads, has Sheet1, and the output
\* directory can be written
XlsxLoads ==
    /\ Suffix(user_lookup) = ".xlsx"
    /\ fs[user_lookup].kind = "xlsx"
    /\ fs[user_lookup].ok
    /\ fs[user_lookup].sheet1
    /\ writable

\* _load_lookup_table has returned and the run is not over
AfterLoad ==
    pc \in { "connect", "prepare", "integrity", "merge", "tech_loop", "title",
             "labels", "rows", "save", "cleanup" }

\* C12: after a successful load from an .xlsx source the cache artifact
\* exists in the output directory and holds the parsed table, the lookup
\* path points at it, and the table in memory is the one read back from it.
C12_WriteThrough ==
    (XlsxLoads /\ AfterLoad) =>
        /\ Exists(fs, CachePath)
        /\ fs[CachePath] = JsonFile(TRUE, JsonDump(DirectlyParsed))
        /\ lookup_path = CachePath
        /\ lookup_table = fs[CachePath].table

\* the second run has loaded a non-empty table from the source again
C12_Witness ==
    /\ XlsxLoads
    /\ pc = "connect"
    /\ runs = 2
    /\ lookup_table # EmptyDict
    /\ lookup_path = CachePath

\* C13: every outcome of the save step is followed by the cleanup step; the
\* flag is true exactly when the document was saved; the cleanup step either
\* removes the file at the lookup path or logs the failure, leaves the flag
\* and the saved document alone, and the run ends with the finished signal.
C13_CleanupAlways ==
    [][ /\ pc = "save" =>
            /\ pc' = "cleanup"
            /\ flag' = (Len(produced') = Len(produced) + 1)
            /\ flag' => out_file' = Document
            /\ ~flag' => out_file' = out_file
        /\ pc = "cleanup" =>
            /\ pc' = "idle"
            /\ signal' = "finished"
            /\ flag' = flag
            /\ out_file' = out_file /\ produced' = produced
            /\ Exists(fs, lookup_path) =>
                  \/ ~Exists(fs', lookup_path) /\ log' = log
                  \/ fs' = fs /\ log' = Append(log, <<"error", "remove_failed">>)
            /\ ~Exists(fs, lookup_path) => fs' = fs /\ log' = log
      ]_vars

\* a run whose save was refused and whose cleanup failed has finished with
\* a false flag
C13_Witness ==
    /\ pc = "idle" /\ signal = "finished"
    /\ ~flag
    /\ LogHas(<<"critical", "save_failed", "locked">>)
    /\ LogHas(<<"error", "remove_failed">>)

(***************************************************************************)
(* The rows of a technician's section                                      *)
(***************************************************************************)
\* the ledger entries the loop has gone through
Processed == SubSeq(items_by_date, 1, item_idx - 1)

\* an adjustment, or an invoice whose gross profit is not 0
Kept(item) == ~IsInvoice(item) \/ item.gp # 0

\* the master rows that refer to a row of the technician's sheet in A..E
MasterDataRows(t) ==
    { m \in 1..Len(Master) :
        /\ Len(Master[m]) = 5
        /\ IsReference(Master[m][1])
        /\ Master[m][1][2] = t }

\* C14: the data rows of the technician's sheet are, in order, the entries
\* gone through that are adjustments or invoices of gross profit other than
\* 0, and the master sheet has as many rows referring to them.
C14_ZeroInvoiceFilter ==
    LedgerSorted =>
        LET rows == DataRowsOf(sheets[tech_name])
            kept == SelectSeq(Processed, Kept)
        IN /\ Len(rows) = Len(kept)
           /\ \A i \in 1..Len(rows) :
                 /\ rows[i][1] = InvNo(kept[i].invoice)
                 /\ rows[i][4] = PyCell(Memo(kept[i]))
                 /\ rows[i][5] = Num(Amount(kept[i]))
           /\ Cardinality(MasterDataRows(tech_name)) = Len(kept)

\* a ledger with an invoice of gross profit 0, an invoice of negative gross
\* profit and an adjustment of amount 0 has been gone through
C14_Witness ==
    /\ LedgerSorted
    /\ item_idx > Len(items_by_date)
    /\ \E i, j, k \in 1..Len(items_by_date) :
          /\ IsInvoice(items_by_date[i]) /\ items_by_date[i].gp = 0
          /\ IsInvoice(items_by_date[j]) /\ items_by_date[j].gp < 0
          /\ ~IsInvoice(items_by_date[k]) /\ items_by_date[k].amount = 0

\* the master rows that carry the total of sheet t, whose total is in row n
MasterTotals(t, n) ==
    { m \in 1..Len(Master) :
        /\ Len(Master[m]) = 6
        /\ Master[m][5] = Str("Total:")
        /\ RefersTo(Master[m][6], t, 5, n) }

\* C15: on a finished detail sheet the data rows are rows 3..n-1, row n is
\* the total row, its amount cell is the sum of column E over rows 3..n-1,
\* and the master sheet has one total row referring to that cell.
C15_TotalRow ==
    \A t \in DetailTitles : Complete(t) =>
        LET ws == sheets[t]
            n == UsedRows(ws)
        IN /\ n > 3
           /\ \A r \in 1..n : IsDataRow(ws[r]) <=> (3 <= r /\ r < n)
           /\ ws[n][4] = Str("Total:")
           /\ ws[n][5] = SumFormula(3, n - 1)
           /\ Cardinality(MasterTotals(t, n)) = 1

\* two finished detail sheets, one of them with more than one data row
C15_Witness ==
    /\ pc = "idle" /\ signal = "finished"
    /\ Cardinality(DetailTitles) = 2
    /\ \E t \in DetailTitles : UsedRows(sheets[t]) > 4

(***************************************************************************)
(* The sheets of the document                                              *)
(***************************************************************************)
RECURSIVE FirstSeen(_, _)
FirstSeen(rows, seen) ==
    IF Len(rows) = 0 THEN seen
    ELSE FirstSeen(Tail(rows),
                   IF Has(seen, Head(rows).technician) THEN seen
                   ELSE Append(seen, Head(rows).technician))

\* the technicians in the order of their first row: Invoices, then
\* Direct Payroll Adjustments
EncounterOrder == FirstSeen(wb.dpa_rows, FirstSeen(wb.inv_rows, <<>>))

EligibleInOrder == SelectSeq(EncounterOrder, Eligible)

\* the names of the title rows of the master sheet, top to bottom
MasterSections ==
    LET IsTitle(row) == Len(row) = 1
        titles == SelectSeq(Master, IsTitle)
    IN [ i \in 1..Len(titles) |-> titles[i][1][2] ]

\* C16: after the loop over the technicians the sheets created for
\* technicians are the eligible technicians, one each, in the order in which
\* their names first occur in the rows of Invoices and then of Direct
\* Payroll Adjustments; the master sheet's sections are in that order; and
\* the one master sheet is the third sheet of the workbook.
C16_SheetOrder ==
    LoopDone =>
        LET IsDetail(name) == name \in DetailTitles
            IsMaster(name) == name = MasterName
        IN /\ SelectSeq(workbook, IsDetail) = EligibleInOrder
           /\ MasterSections = EligibleInOrder
           /\ Len(SelectSeq(workbook, IsMaster)) = 1
           /\ workbook[3] = MasterName

\* a finished run with two technicians' sheets, Bob's before Ann's
C16_Witness ==
    /\ pc = "idle" /\ signal = "finished"
    /\ EligibleInOrder = << "Bob", "Ann" >>
    /\ MasterSections = << "Bob", "Ann" >>

(***************************************************************************)
(* Rows of the structured lookup source                                    *)
(***************************************************************************)
\* the cell holds an int, or text that is a number
HoldsNumber(id) == id.ty \in { "int", "str" }

SourceRows == fs[user_lookup].rows

\* the caller's .xlsx source was parsed by the current run
XlsxParsed ==
    /\ Suffix(user_lookup) = ".xlsx"
    /\ fs[user_lookup].kind = "xlsx"
    /\ fs[user_lookup].ok
    /\ fs[user_lookup].sheet1
    /\ AfterLoad

\* C20: of the rows of the structured lookup source, a row whose id is not
\* convertible to an integer is logged and adds nothing to the table; every
\* row with a convertible id is in the table, under its number, with the
\* name of the last such row.
C20_BadLookupRowSkipped ==
    XlsxParsed =>
        /\ \A i \in 1..Len(SourceRows) :
              IF ~HoldsNumber(SourceRows[i].id)
              THEN LogHas(<<"critical", "lookup_row", i>>)
              ELSE /\ ~LogHas(<<"critical", "lookup_row", i>>)
                   /\ InLookup(SourceRows[i].id)
                   /\ (\A j \in (i + 1)..Len(SourceRows) :
                          ~(HoldsNumber(SourceRows[j].id)
                            /\ SourceRows[j].id.v = SourceRows[i].id.v))
                      => LookupName(SourceRows[i].id) = SourceRows[i].name
        /\ \A k \in DOMAIN lookup_table :
              \E i \in 1..Len(SourceRows) :
                  HoldsNumber(SourceRows[i].id) /\ SourceRows[i].id.v = k.v

\* a source whose first row has text for an id and whose second row has a
\* number: the first is logged, the second is in the table
C20_Witness ==
    /\ XlsxParsed
    /\ Len(SourceRows) = 2
    /\ ~HoldsNumber(SourceRows[1].id)
    /\ HoldsNumber(SourceRows[2].id)
    /\ LogHas(<<"critical", "lookup_row", 1>>)
    /\ InLookup(SourceRows[2].id)

(***************************************************************************)
(* The PDF export                                                          *)
(***************************************************************************)
\* an export has ended
ExportOver == pc = "idle" /\ exports > 0

\* the export opened the document and entered the loop over its worksheets
TabsEntered == ws_idx >= 1

\* the sheets of the saved document other than the three that are skipped
Exportable ==
    LET IsTab(name) == name \notin sheets_to_skip
    IN SelectSeq(out_file.sheetnames, IsTab)

\* C17: an export that got to the worksheets has, when it ends, called the
\* export on every sheet other than Invoices, Direct Payroll Adjustments and
\* All Technicians, whatever failed on another tab, and on none of those
\* three.
C17_ExportIsolation ==
    (ExportOver /\ TabsEntered) =>
        /\ attempted = Exportable
        /\ \A n \in sheets_to_skip : n \notin pages /\ ~Has(attempted, n)

\* C18: an export that ends without having opened the document in the Excel
\* application has written no PDF and ends with the failed signal, not the
\* finished one.
C18_GatewayUnavailable ==
    (ExportOver /\ ~TabsEntered) =>
        /\ pages = {}
        /\ pdf_signal = "failed"

(***************************************************************************)
(* The window's workers                                                    *)
(***************************************************************************)
InFlight == merges + exporting

\* C19: at most one worker (merge or export) is in flight at any moment, and
\* while one is in flight neither the merge button nor the export button is
\* enabled.
C19_SingleFlight ==
    /\ InFlight <= 1
    /\ InFlight >= 1 => ~run_btn /\ ~export_btn

(***************************************************************************)
(* The row cursors                                                         *)
(***************************************************************************)
\* the rows of the sections of the technicians in S: the kept entries, the
\* title row, the label row and the total row of each
RECURSIVE SectionRows(_)
SectionRows(S) ==
    IF S = {} THEN 0
    ELSE LET t == CHOOSE x \in S : TRUE
         IN RetainedCount(t) + 3 + SectionRows(S \ { t })

\* each cursor is the row after the last written row of its sheet; within a
\* section the two differ by the rows of the sections before it; after the
\* loop the master cursor is 1 + the rows of all sections
CursorsAgree ==
    /\ MasterName \in DOMAIN sheets => master_current_row = UsedRows(Master) + 1
    /\ Composing =>
          /\ current_row = UsedRows(sheets[tech_name]) + 1
          /\ master_current_row - current_row = SectionRows(DetailTitles \ { tech_name })
    /\ LoopDone => master_current_row = 1 + SectionRows(DetailTitles)

\* C21: every step that writes a row of a technician's section (title,
\* labels, a data row, the total row) advances current_row and
\* master_current_row by exactly 1 each, a step that skips an entry leaves
\* both alone, and after every step the cursors agree with the sheets as
\* stated in CursorsAgree.
C21_CursorsTogether ==
    [][ /\ Composing =>
            IF sheets' # sheets
            THEN /\ current_row' = current_row + 1
                 /\ master_current_row' = master_current_row + 1
            ELSE /\ current_row' = current_row
                 /\ master_current_row' = master_current_row
        /\ CursorsAgree'
      ]_vars

\* a finished run with two sections, one of which had an entry skipped, and
\* the master cursor after the last total row
C21_Witness ==
    /\ pc = "idle" /\ signal = "finished"
    /\ Cardinality(DetailTitles) = 2
    /\ master_current_row = 1 + SectionRows(DetailTitles)
    /\ master_current_row > 8
    /\ \E t \in DetailTitles :
          RetainedCount(t) <
            Len(technician_dict.data[t].invoices) + Len(technician_dict.data[t].dpa)

(***************************************************************************)
(* The caller's lookup file                                                *)
(***************************************************************************)
\* the paths a caller's lookup file can be at: all but the cache artifact
UserPaths == Paths \ { CachePath }

\* C22: no step of a run removes a file at a path other than that of the
\* cache artifact in the output directory: a lookup file the caller
\* supplied is still there after the run.
C22_UserLookupKept ==
    [][ \A p \in UserPaths : Exists(fs, p) => Exists(fs', p) ]_vars

(***************************************************************************)
(* The window's buttons and the workers' signals                           *)
(***************************************************************************)
\* C23: whenever the end of a merge enables the export button, the save of
\* that merge had succeeded (run_merge returned True).
C23_ExportNeedsSavedMerge ==
    [][ (pc = "cleanup" /\ export_btn') => flag ]_vars

MergePcs ==
    { "load_lookup", "connect", "prepare", "integrity", "merge", "tech_loop",
      "title", "labels", "rows", "save", "cleanup" }

ExportPcs == { "dispatch", "open", "tabs" }

\* a worker's signal is not set while it runs and is one of finished and
\* failed when it ends
OneSignal ==
    /\ pc \in MergePcs =>
          /\ signal = "none"
          /\ signal' = IF pc' = "idle" THEN signal' ELSE "none"
          /\ pc' = "idle" => signal' \in { "finished", "failed" }
    /\ pc \in ExportPcs =>
          /\ pdf_signal = "none"
          /\ signal' = signal
          /\ pc' = "idle" => pdf_signal' \in { "finished", "failed" }
          /\ pc' # "idle" => pdf_signal' = "none"

\* C24: a started worker (merge or export) has emitted no signal while it
\* runs and emits one of finished and failed when it ends, and every
\* started worker comes to its end, with the merge button enabled again.
C24_OneSignalThenMerge ==
    /\ [][OneSignal]_vars
    /\ (pc # "idle") ~> (pc = "idle" /\ run_btn)

\* a merge has ended with failed and an export has ended, each with the
\* merge button enabled again
C24_Witness ==
    /\ pc = "idle"
    /\ run_btn
    /\ \/ runs > 0 /\ signal = "failed"
       \/ exports > 0 /\ pdf_signal = "failed"

\* the total formula of a sheet: its first and last row
TotalRange(ws) == LET c == ws[UsedRows(ws)][5] IN << c[2], c[3] >>

\* C25: a technician whom the eligibility predicate admits has an
\* adjustment or an invoice of gross profit other than 0, and every finished
\* detail sheet has at least one data row, all of them within the range of
\* the total formula, which is not empty.
C25_SheetHasDataRow ==
    /\ \A t \in SourceTechnicians :
          Eligible(t) =>
              \/ Len(RowsOf(t).dpa) > 0
              \/ \E i \in 1..Len(RowsOf(t).invoices) : RowsOf(t).invoices[i].gp # 0
    /\ \A t \in DetailTitles : Complete(t) =>
          /\ Len(DataRowsOf(sheets[t])) >= 1
          /\ TotalRange(sheets[t])[1] <= TotalRange(sheets[t])[2]
          /\ \A r \in 1..Len(sheets[t]) :
                IsDataRow(sheets[t][r]) =>
                    TotalRange(sheets[t])[1] <= r /\ r <= TotalRange(sheets[t])[2]

\* a finished sheet with a single data row, of a technician who has an
\* invoice of gross profit 0 and is admitted for an adjustment
C25_Witness ==
    \E t \in DetailTitles :
        /\ Complete(t)
        /\ Len(DataRowsOf(sheets[t])) = 1
        /\ Len(RowsOf(t).dpa) = 1
        /\ \E i \in 1..Len(RowsOf(t).invoices) : RowsOf(t).invoices[i].gp = 0

\* C26: when an export has ended, the document is no longer open in the
\* Excel application and the application has been quit.
C26_EngineReleased ==
    ExportOver => (~com_wb /\ engine = "off")

====
